---- MODULE Spec2Model ----
(***************************************************************************)
(* Simple Undetected Prevalence Estimator: the input pipeline              *)
(* (src/scripts/input_processing.py) and the output pipeline               *)
(* (src/scripts/output_processing.py) as one state machine over the shared *)
(* /data directory: the input files, the four tabular outputs,             *)
(* output.json, the manifest attachments.json and the two logs.            *)
(*                                                                         *)
(* Python values are records [t, n, d, s]: t the type, n/d the number (an  *)
(* int has d = 1, a float is the reduced fraction n/d, a bool is n = 0/1), *)
(* s the text as a sequence of chunks (a field name or id is one chunk, a  *)
(* text that the code parses is a sequence of characters).  Floats are     *)
(* exact rationals: binary rounding error of the runtime is not modelled.  *)
(***************************************************************************)
EXTENDS Integers, Sequences, FiniteSets, TLC

(***************************************************************************)
(* Bounds of the model.                                                    *)
(***************************************************************************)
MaxRuns == 3
MaxAreas == 2
MaxDemo == 2
MaxTests == 2
MaxSamples == 1
MaxLen == 3
MaxRows == 2

(***************************************************************************)
(* Values.                                                                 *)
(***************************************************************************)
RECURSIVE Gcd(_, _)
Gcd(a, b) == IF b = 0 THEN a ELSE Gcd(b, a % b)

Abs(i) == IF i < 0 THEN -i ELSE i

None == [t |-> "null", n |-> 0, d |-> 1, s |-> <<>>]
IntV(i) == [t |-> "int", n |-> i, d |-> 1, s |-> <<>>]
BoolV(b) == [t |-> "bool", n |-> IF b THEN 1 ELSE 0, d |-> 1, s |-> <<>>]
StrV(x) == [t |-> "str", n |-> 0, d |-> 1, s |-> <<x>>]
Text(cs) == [t |-> "str", n |-> 0, d |-> 1, s |-> cs]

\* a float num/den (den > 0), kept reduced so that equal floats are equal records
FloatV(num, den) ==
  LET g == Gcd(Abs(num), den)
  IN  [t |-> "float", n |-> num \div g, d |-> den \div g, s |-> <<>>]

IsNumber(v) == v.t \in {"int", "float", "bool"}

\* Python's a / b on numbers: always a float
TrueDiv(a, b) == FloatV(a.n * b.d, a.d * b.n)

\* Python's a * b: an int when both are ints, a float otherwise
Mul(a, b) ==
  IF a.t = "int" /\ b.t = "int" THEN IntV(a.n * b.n)
  ELSE FloatV(a.n * b.n, a.d * b.d)

\* Python's a + b on numbers
Add(a, b) ==
  IF a.t = "int" /\ b.t = "int" THEN IntV(a.n + b.n)
  ELSE FloatV(a.n * b.d + b.n * a.d, a.d * b.d)

RoundHalfUp(v) == IntV((2 * v.n + v.d) \div (2 * v.d))

\* Python 3's round(x): to the nearest integer, a tie to the even one
Round(v) ==
  LET q == v.n \div v.d
      r == v.n % v.d
  IN  IF 2 * r < v.d THEN IntV(q)
      ELSE IF 2 * r > v.d THEN IntV(q + 1)
      ELSE IF q % 2 = 0 THEN IntV(q) ELSE IntV(q + 1)

\* v == True in Python: True, 1 and 1.0 are all equal to True
EqTrue(v) == IsNumber(v) /\ v.n = 1 /\ v.d = 1

(***************************************************************************)
(* Dictionaries are functions from a finite set of keys; a dictionary      *)
(* whose iteration order the code depends on is a sequence of <<key,       *)
(* value>> pairs with distinct keys.                                       *)
(***************************************************************************)
EmptyDict == [k \in {} |-> None]
Has(dict, k) == k \in DOMAIN dict
Put(dict, k, v) == [x \in (DOMAIN dict) \cup {k} |-> IF x = k THEN v ELSE dict[x]]
Del(dict, k) == [x \in (DOMAIN dict) \ {k} |-> dict[x]]

SeqUpTo(S, n) == UNION {[1..k -> S] : k \in 0..n}
Range(f) == {f[i] : i \in DOMAIN f}


RECURSIVE Flatten(_)
Flatten(seqs) == IF seqs = <<>> THEN <<>> ELSE Head(seqs) \o Flatten(Tail(seqs))

(***************************************************************************)
(* The state: the /data directory, and the running script's memory.        *)
(***************************************************************************)
VARIABLES
  exists,                \* the paths of /data that exist
  inputs,                \* the content of the five input files
  csv_out,               \* the content of the four tabular files
  output_json,           \* the content of attachments/output.json
  attachments_json,      \* the manifest: the list stored in attachments.json
  execution_log,         \* attachments/execution_log.log, a list of records
  info_html,             \* attachments/info.html, a list of tagged lines
  script,                \* "none", "input" or "output": the script last started
  pc,                    \* where that script stands; "done" once it has ended
  exit_code,             \* the process's exit status once pc = "done", -1 before
  error,                 \* the exception that ended the run, if one did
  runs_left,             \* how many more times a script will be started
  written,               \* the files the current run has written
  params,                \* input script: params
  subadmin_areas_data,   \* input script: subadmin_areas_data
  demography,            \* input script: demography
  demography_data,       \* input script: demography_data
  sample_data,           \* input script: sample_data
  model_output_dictlist  \* output script: model_output_dictlist

fsVars == <<exists, inputs, csv_out, output_json, attachments_json,
            execution_log, info_html>>
procVars == <<script, pc, exit_code, error, runs_left, written>>
memVars == <<params, subadmin_areas_data, demography, demography_data,
             sample_data, model_output_dictlist>>
vars == <<fsVars, procVars, memVars>>

\* the file names, relative to /data
parameters_file == "params.json"
subadmin_file == "sub_administrative_area.ndJson"
sample_file == "sample.ndJson"
demography_file == "demography.ndJson"
model_output_file == "attachments/SimpleUndetectedPrevalenceEstimatorOutput.csv"
model_metadata_log_file == "attachments/info.html"
logging_path == "attachments/execution_log.log"
attachments_json_path == "attachments.json"
attachments_dir == "attachments"
subadmin_csv == "sub_administrative_area.csv"
demography_csv == "demography.csv"
sample_csv == "sample.csv"
params_csv == "params.csv"
model_output_json_path == "attachments/output.json"

TabularFiles == {subadmin_csv, demography_csv, sample_csv, params_csv}

\* the three manifest entries the scripts register
ExecutionLogAttachment ==
  [filename |-> "execution_log.log", content_type |-> "text/plain", role |-> "downloadable"]
InfoAttachment ==
  [filename |-> "info.html", content_type |-> "text/html", role |-> "feedback"]
OutputAttachment ==
  [filename |-> "output.json", content_type |-> "application/json", role |-> "primary"]

NoError == [type |-> "", arg |-> "", caught |-> FALSE]
Raised(type, arg, caught) == [type |-> type, arg |-> arg, caught |-> caught]

\* logging.info / logging.error / logging.exception: one record of the execution log
LogRecord(level, msg, exc) == [level |-> level, msg |-> msg, exc |-> exc]
\* model_log_html: one line of info.html; data holds the values formatted into it
HtmlLine(line, tag, data) == [tag |-> tag, line |-> line, data |-> data]

\* sys.excepthook of the input script: the traceback goes to the execution log only
UncaughtInputRecord(type) == LogRecord("ERROR", "Uncaught exception:", type)


(***************************************************************************)
(* csv.DictWriter(quoting = csv.QUOTE_NONNUMERIC, extrasaction = 'ignore') *)
(***************************************************************************)
DigitChar(i) == <<"0", "1", "2", "3", "4", "5", "6", "7", "8", "9">>[i + 1]

RECURSIVE Digits(_)
Digits(i) == IF i < 10 THEN <<DigitChar(i)>> ELSE Digits(i \div 10) \o <<DigitChar(i % 10)>>

RECURSIVE FracDigits(_, _, _)
FracDigits(r, d, k) ==
  IF r = 0 \/ k = 0 THEN <<>>
  ELSE <<DigitChar((r * 10) \div d)>> \o FracDigits((r * 10) % d, d, k - 1)

\* str(v) of a number, as the csv writer renders it (floats in positional notation)
NumberText(v) ==
  LET sign == IF v.n < 0 THEN <<"-">> ELSE <<>>
      frac == FracDigits(Abs(v.n) % v.d, v.d, 17)
  IN  CASE v.t = "bool" -> IF v.n = 1 THEN <<"True">> ELSE <<"False">>
        [] v.t = "int" -> sign \o Digits(Abs(v.n))
        [] OTHER -> sign \o Digits(Abs(v.n) \div v.d) \o <<".">>
                      \o (IF frac = <<>> THEN <<"0">> ELSE frac)

QuoteAll(v) == TRUE

\* QUOTE_NONNUMERIC: a field is quoted unless it is a number; None is written as
\* the (quoted) empty string
Quoted(v) == ~IsNumber(v)

CsvField(v) ==
  [quoted |-> Quoted(v),
   text |-> IF IsNumber(v) THEN NumberText(v) ELSE v.s]

\* DictWriter.writerow: the fields in fieldnames' order, a missing key written as
\* restval '', keys outside fieldnames ignored
CsvRow(fieldnames, dict) ==
  [i \in 1..Len(fieldnames) |->
     CsvField(IF Has(dict, fieldnames[i]) THEN dict[fieldnames[i]] ELSE Text(<<>>))]

\* writeheader() then writerows(rows)
CsvFile(fieldnames, rows) ==
  <<[i \in 1..Len(fieldnames) |-> CsvField(StrV(fieldnames[i]))]>>
    \o [j \in 1..Len(rows) |-> CsvRow(fieldnames, rows[j])]

subadmin_fieldnames == <<"_id", "full_name", "name", "aland">>
demography_fieldnames == <<"_id", "value">>
sample_fieldnames == <<"id", "species", "sample_source", "season_year", "age_group",
                       "sex", "result", "sub_administrative_area_id">>
params_fieldnames == <<"alpha", "sensitivity">>

(***************************************************************************)
(* Process Subadmin Areas                                                  *)
(***************************************************************************)
AreaKeys == <<"_id", "name", "full_name", "aland">>

\* the first of the required properties a raw area lacks, "" if it has them all
MissingAreaKey(sa) ==
  LET miss == SelectSeq(AreaKeys, LAMBDA k : ~Has(sa, k))
  IN  IF miss = <<>> THEN "" ELSE miss[1]

NormalizeArea(sa) == [k \in Range(AreaKeys) |-> sa[k]]

(***************************************************************************)
(* Process Demography.  A record is [fields, data]: fields the scalar      *)
(* properties, data the ordered mapping area-id -> value.                  *)
(***************************************************************************)
SqMPerSqKm == 1000000
DensityMetric == StrV("deer density")
ConvertedMetric == StrV("total population (converted from density)")

IsDensity(demo) == Has(demo.fields, "metric") /\ demo.fields["metric"] = DensityMetric

\* the inner loop over subadmin_areas_data: the index of the first area whose _id
\* is sa_id, 0 when the loop ends without a match
FirstMatch(areas, sa_id) ==
  LET hits == {i \in DOMAIN areas : Has(areas[i], "_id") /\ areas[i]["_id"] = StrV(sa_id)}
  IN  IF hits = {} THEN 0 ELSE CHOOSE i \in hits : \A j \in hits : i <= j

\* int(round(original_density_value * (sa['aland'] / 1_000_000)))
TotalPopulation(original_density_value, sa) ==
  Round(Mul(original_density_value, TrueDiv(sa["aland"], IntV(SqMPerSqKm))))

ConvertOrNone(areas, sa_id, value) ==
  LET i == FirstMatch(areas, sa_id)
  IN  IF i = 0 THEN None ELSE TotalPopulation(value, areas[i])

\* the new demo['data'][sa_id]: unchanged when no area matches
ConvertValue(areas, sa_id, value) ==
  LET i == FirstMatch(areas, sa_id)
  IN  IF i = 0 THEN value ELSE TotalPopulation(value, areas[i])

\* one pass of the conversion loop over a record
ConvertDensity(demo, areas) ==
  IF IsDensity(demo)
  THEN [fields |-> Put(demo.fields, "metric", ConvertedMetric),
        data |-> [i \in DOMAIN demo.data |->
                    <<demo.data[i][1], ConvertValue(areas, demo.data[i][1], demo.data[i][2])>>]]
  ELSE demo

KeyIndex(dict, key) ==
  IF \E i \in DOMAIN dict : dict[i][1] = key
  THEN CHOOSE i \in DOMAIN dict : dict[i][1] = key
  ELSE 0

OverwriteItem(dict, item) ==
  LET i == KeyIndex(dict, item[1])
  IN  IF i = 0 THEN Append(dict, item) ELSE [dict EXCEPT ![i] = item]

\* demography_data_dict[key] += value, or = value for a key not seen before
AddItem(dict, item) ==
  LET i == KeyIndex(dict, item[1])
  IN  IF i = 0 THEN Append(dict, item)
      ELSE [dict EXCEPT ![i] = <<item[1], Add(dict[i][2], item[2])>>]

RECURSIVE SumItems(_, _)
SumItems(dict, items) ==
  IF items = <<>> THEN dict ELSE SumItems(AddItem(dict, Head(items)), Tail(items))

\* the summation loop: every item of every record, in input order
SumByArea(demos) == SumItems(<<>>, Flatten([i \in DOMAIN demos |-> demos[i].data]))

DemographyRows(dict) ==
  [i \in DOMAIN dict |-> [k \in {"_id", "value"} |->
                            IF k = "_id" THEN StrV(dict[i][1]) ELSE dict[i][2]]]

\* the first property the log line of a record needs and the record lacks
MissingDemoKey(demo) ==
  LET miss == SelectSeq(<<"species", "metric", "season_year">>,
                        LAMBDA k : ~Has(demo.fields, k))
  IN  IF miss = <<>> THEN "" ELSE miss[1]

(***************************************************************************)
(* Process Samples.  A record is [fields, tests, has_area, area]: fields   *)
(* the scalar properties, tests the list of test dictionaries, area the    *)
(* nested _sub_administrative_area when has_area.                          *)
(***************************************************************************)
SelectedDefinitive(tests) ==
  SelectSeq(tests, LAMBDA test : EqTrue(test["selected_definitive"]))

FirstOfSelected(rec) ==
  LET sel == SelectedDefinitive(rec.tests)
  IN  IF Len(sel) = 0 THEN Put(rec.fields, "result", None)
      ELSE Put(rec.fields, "result",
               IF Has(sel[1], "result") THEN sel[1]["result"] ELSE None)

\* the if / elif chain on len(tests_selected_definitive)
WithResult(rec) ==
  LET sel == SelectedDefinitive(rec.tests)
  IN  IF Len(sel) = 0 THEN Put(rec.fields, "result", None)
      ELSE IF Len(sel) > 1 THEN rec.fields
      ELSE Put(rec.fields, "result",
               IF Has(sel[1], "result") THEN sel[1]["result"] ELSE None)

AreaId(rec) ==
  IF rec.has_area /\ Has(rec.area, "_id") THEN rec.area["_id"] ELSE None

\* rename_key(dict_, old_key, new_key)
rename_key(dict, old_key, new_key) ==
  IF Has(dict, old_key) THEN Put(Del(dict, old_key), new_key, dict[old_key]) ELSE dict

\* one pass of the loop over sample_data
ResolveSample(rec) ==
  [rec EXCEPT !.fields =
     rename_key(Put(WithResult(rec), "sub_administrative_area_id", AreaId(rec)),
                "_id", "id")]

LacksSelectedDefinitive(rec) ==
  \E i \in DOMAIN rec.tests : ~Has(rec.tests[i], "selected_definitive")


(***************************************************************************)
(* The input script, input_processing.py                                   *)
(***************************************************************************)
NoParams == [fields |-> EmptyDict, has_provider |-> FALSE, provider |-> EmptyDict]

\* add_item_to_json_file_list on a file that holds a list
add_item_to_json_file_list(list, new_item) == Append(list, new_item)

AppendToManifest(old) ==
  add_item_to_json_file_list(add_item_to_json_file_list(old, ExecutionLogAttachment),
                             InfoAttachment)

\* attachments.json is written as an empty list, then the two log entries are added
SetupAttachments(old) ==
  add_item_to_json_file_list(add_item_to_json_file_list(<<>>, ExecutionLogAttachment),
                             InfoAttachment)

LogMissingAndGoOn(file, log_msg, html_msg) ==
  /\ execution_log' = Append(execution_log, LogRecord("ERROR", log_msg, ""))
  /\ info_html' = info_html \o <<HtmlLine("ERROR", "h4", EmptyDict),
                                 HtmlLine(html_msg, "p", EmptyDict)>>
  /\ pc' = CASE pc = "in_params" -> "in_subadmin"
              [] pc = "in_subadmin" -> "in_demography"
              [] pc = "in_demography" -> "in_samples"
              [] OTHER -> "in_write_params"
  /\ exit_code' = exit_code
  /\ error' = Raised("FileNotFoundError", file, TRUE)

\* an except FileNotFoundError branch: logging.error, two lines of info.html, sys.exit(1)
FatalMissing(file, log_msg, html_msg) ==
  /\ execution_log' = Append(execution_log, LogRecord("ERROR", log_msg, ""))
  /\ info_html' = info_html \o <<HtmlLine("ERROR", "h4", EmptyDict),
                                 HtmlLine(html_msg, "p", EmptyDict)>>
  /\ pc' = "done"
  /\ exit_code' = 1
  /\ error' = Raised("FileNotFoundError", file, TRUE)

\* an exception nothing catches: handle_uncaught_exception logs it, the
\* interpreter exits with status 1
InputUncaught(type, arg, log) ==
  /\ execution_log' = Append(log, UncaughtInputRecord(type))
  /\ pc' = "done"
  /\ exit_code' = 1
  /\ error' = Raised(type, arg, FALSE)

\* the first key of params['_provider']['_administrative_area']['administrative_area']
\* that is missing, "" if the lookup succeeds
MissingProviderKey(p) ==
  IF ~p.has_provider THEN "_provider"
  ELSE IF ~Has(p.provider, "_administrative_area") THEN "_administrative_area"
  ELSE IF ~Has(p.provider["_administrative_area"], "administrative_area")
       THEN "administrative_area"
  ELSE ""

\* SETUP FILE STRUCTURE and SETUP LOGGING
InSetup ==
  /\ pc \in {"idle", "done"}
  /\ runs_left > 0
  /\ runs_left' = runs_left - 1
  /\ script' = "input"
  /\ pc' = "in_params"
  /\ exit_code' = -1
  /\ error' = NoError
  /\ exists' = exists \cup {attachments_dir, attachments_json_path, logging_path,
                            model_metadata_log_file}
  /\ attachments_json' = SetupAttachments(attachments_json)
  /\ execution_log' =
       <<LogRecord("INFO", "Model: Simple Undetected Prevalence Estimator Model", ""),
         LogRecord("INFO", "Date: <now> GMT", ""),
         LogRecord("INFO", "This log records data for debugging purposes in the case of a model execution error.", "")>>
  /\ info_html' =
       <<HtmlLine("Model Execution Summary", "h3", EmptyDict),
         HtmlLine("Model: Simple Undetected Prevalence Estimator Model", "p", EmptyDict),
         HtmlLine("Date: <now> GMT", "p", EmptyDict)>>
  /\ written' = {attachments_json_path, logging_path, model_metadata_log_file}
  /\ params' = NoParams
  /\ subadmin_areas_data' = <<>>
  /\ demography' = <<>>
  /\ demography_data' = <<>>
  /\ sample_data' = <<>>
  /\ model_output_dictlist' = <<>>
  /\ UNCHANGED <<inputs, csv_out, output_json>>

\* Process Parameters
InProcessParameters ==
  /\ script = "input" /\ pc = "in_params"
  /\ IF parameters_file \notin exists
     THEN /\ FatalMissing(parameters_file, "params.json File does not exist.",
                          "Parameters (params.json) file not found.")
          /\ UNCHANGED params
     ELSE LET log == Append(execution_log,
                            LogRecord("INFO", "Parameter file loaded successfully", ""))
              key == MissingProviderKey(inputs.params)
          IN  IF key # ""
              THEN /\ InputUncaught("KeyError", key, log)
                   /\ params' = inputs.params
                   /\ UNCHANGED info_html
              ELSE /\ execution_log' = log
                   /\ params' = [inputs.params EXCEPT !.has_provider = FALSE,
                                                      !.provider = EmptyDict]
                   /\ info_html' = info_html \o
                        <<HtmlLine("Provider area: {provider_admin_area}", "p",
                                   inputs.params.provider["_administrative_area"]),
                          HtmlLine("User provided parameters", "h4", EmptyDict),
                          HtmlLine("json_stringify(params)", "p", inputs.params.fields)>>
                   /\ pc' = "in_subadmin"
                   /\ UNCHANGED <<exit_code, error>>
  /\ UNCHANGED <<exists, inputs, csv_out, output_json, attachments_json, script, runs_left,
                 written, subadmin_areas_data, demography, demography_data, sample_data,
                 model_output_dictlist>>

\* Process Subadmin Areas
InProcessSubadmin ==
  /\ script = "input" /\ pc = "in_subadmin"
  /\ IF subadmin_file \notin exists
     THEN /\ FatalMissing(subadmin_file, "sub_administrative_area.ndJson File does not exist.",
                          "Subadmin areas (sub_administrative_area.ndJson) file was expected but not found.")
          /\ UNCHANGED <<exists, csv_out, written, subadmin_areas_data>>
     ELSE LET log == Append(execution_log,
                            LogRecord("INFO", "sub_administrative_area.ndJson file loaded successfully", ""))
              bad == SelectSeq(inputs.subadmin, LAMBDA sa : MissingAreaKey(sa) # "")
              data == [i \in DOMAIN inputs.subadmin |-> NormalizeArea(inputs.subadmin[i])]
          IN  IF bad # <<>>
              THEN /\ InputUncaught("KeyError", MissingAreaKey(bad[1]), log)
                   /\ UNCHANGED <<exists, csv_out, written, subadmin_areas_data, info_html>>
              ELSE /\ execution_log' = log
                   /\ subadmin_areas_data' = data
                   /\ csv_out' = [csv_out EXCEPT ![subadmin_csv] =
                                    CsvFile(subadmin_fieldnames, data)]
                   /\ exists' = exists \cup {subadmin_csv}
                   /\ written' = written \cup {subadmin_csv}
                   /\ pc' = "in_demography"
                   /\ UNCHANGED <<exit_code, error, info_html>>
  /\ UNCHANGED <<inputs, output_json, attachments_json, script, runs_left, params, demography,
                 demography_data, sample_data, model_output_dictlist>>

\* Process Demography
InProcessDemography ==
  /\ script = "input" /\ pc = "in_demography"
  /\ IF demography_file \notin exists
     THEN /\ FatalMissing(demography_file, "demography.json file does not exist.",
                          "Demography (demography.json) file was expected but not found.")
          /\ UNCHANGED <<exists, csv_out, written, demography, demography_data>>
     ELSE LET log == Append(execution_log,
                            LogRecord("INFO", "Demography file loaded successfully", ""))
              converted == [i \in DOMAIN inputs.demography |->
                              ConvertDensity(inputs.demography[i], subadmin_areas_data)]
              rows == DemographyRows(SumByArea(converted))
              bad == SelectSeq(converted, LAMBDA demo : MissingDemoKey(demo) # "")
              \* the lines logged before the first record that lacks a property
              logged == IF bad = <<>> THEN Len(converted)
                        ELSE (CHOOSE i \in DOMAIN converted :
                                /\ MissingDemoKey(converted[i]) # ""
                                /\ \A j \in 1..(i - 1) : MissingDemoKey(converted[j]) = "") - 1
              html == info_html \o <<HtmlLine("Demographic data", "h4", EmptyDict)>> \o
                        [i \in 1..logged |->
                           HtmlLine("{species} {metric} for season-year {season_year}", "p",
                                    converted[i].fields)]
          IN  /\ demography' = converted
              /\ demography_data' = rows
              /\ info_html' = html
              /\ IF bad # <<>>
                 THEN /\ InputUncaught("KeyError", MissingDemoKey(bad[1]), log)
                      /\ UNCHANGED <<exists, csv_out, written>>
                 ELSE /\ execution_log' = log
                      /\ csv_out' = [csv_out EXCEPT ![demography_csv] =
                                       CsvFile(demography_fieldnames, rows)]
                      /\ exists' = exists \cup {demography_csv}
                      /\ written' = written \cup {demography_csv}
                      /\ pc' = "in_samples"
                      /\ UNCHANGED <<exit_code, error>>
  /\ UNCHANGED <<inputs, output_json, attachments_json, script, runs_left, params,
                 subadmin_areas_data, sample_data, model_output_dictlist>>

\* Process Samples
InProcessSamples ==
  /\ script = "input" /\ pc = "in_samples"
  /\ IF sample_file \notin exists
     THEN /\ FatalMissing(sample_file, "sample.ndJjon File does not exist.",
                          "Sample (sample.ndJson) file was expected but not found.")
          /\ UNCHANGED <<exists, csv_out, written, sample_data>>
     ELSE LET log == Append(execution_log,
                            LogRecord("INFO", "Sample file loaded successfully", ""))
              bad == SelectSeq(inputs.sample, LacksSelectedDefinitive)
              resolved == [i \in DOMAIN inputs.sample |-> ResolveSample(inputs.sample[i])]
          IN  IF bad # <<>>
              THEN /\ InputUncaught("KeyError", "selected_definitive", log)
                   /\ UNCHANGED <<exists, csv_out, written, sample_data, info_html>>
              ELSE /\ execution_log' = log
                   /\ sample_data' = resolved
                   /\ csv_out' = [csv_out EXCEPT ![sample_csv] =
                                    CsvFile(sample_fieldnames,
                                            [i \in DOMAIN resolved |-> resolved[i].fields])]
                   /\ exists' = exists \cup {sample_csv}
                   /\ written' = written \cup {sample_csv}
                   /\ pc' = "in_write_params"
                   /\ UNCHANGED <<exit_code, error, info_html>>
  /\ UNCHANGED <<inputs, output_json, attachments_json, script, runs_left, params,
                 subadmin_areas_data, demography, demography_data, model_output_dictlist>>

\* Params processing - continued: the script ends after writing params.csv
InWriteParams ==
  /\ script = "input" /\ pc = "in_write_params"
  /\ csv_out' = [csv_out EXCEPT ![params_csv] = CsvFile(params_fieldnames, <<params.fields>>)]
  /\ exists' = exists \cup {params_csv}
  /\ written' = written \cup {params_csv}
  /\ pc' = "done"
  /\ exit_code' = 0
  /\ UNCHANGED <<inputs, output_json, attachments_json, execution_log, info_html, script,
                 error, runs_left, memVars>>

InputNext ==
  \/ InSetup
  \/ InProcessParameters
  \/ InProcessSubadmin
  \/ InProcessDemography
  \/ InProcessSamples
  \/ InWriteParams


(***************************************************************************)
(* The output script, output_processing.py.  The model result file is      *)
(* [header, rows]: the column names and, per line, the cells as texts      *)
(* (sequences of characters).  The texts of the model are over digits,     *)
(* "-", ".", "_", " " and letters; exponents, "inf" and "nan" are outside. *)
(***************************************************************************)
Whitespace == {" "}
IsDigit(c) == c \in {"0", "1", "2", "3", "4", "5", "6", "7", "8", "9"}
DigitValue(c) == CHOOSE i \in 0..9 : DigitChar(i) = c

RECURSIVE LStrip(_)
LStrip(cs) == IF cs # <<>> /\ Head(cs) \in Whitespace THEN LStrip(Tail(cs)) ELSE cs

RECURSIVE RStrip(_)
RStrip(cs) ==
  IF cs # <<>> /\ cs[Len(cs)] \in Whitespace THEN RStrip(SubSeq(cs, 1, Len(cs) - 1)) ELSE cs

Strip(cs) == RStrip(LStrip(cs))

\* digits with single underscores between them: Python's digit groups
IsDigitGroup(ds) ==
  /\ ds # <<>>
  /\ IsDigit(ds[1])
  /\ IsDigit(ds[Len(ds)])
  /\ \A i \in DOMAIN ds : IsDigit(ds[i]) \/ ds[i] = "_"
  /\ \A i \in 1..(Len(ds) - 1) : ~(ds[i] = "_" /\ ds[i + 1] = "_")

RECURSIVE GroupValue(_, _)
GroupValue(ds, acc) ==
  IF ds = <<>> THEN acc
  ELSE IF Head(ds) = "_" THEN GroupValue(Tail(ds), acc)
  ELSE GroupValue(Tail(ds), 10 * acc + DigitValue(Head(ds)))

RECURSIVE Pow10(_)
Pow10(k) == IF k = 0 THEN 1 ELSE 10 * Pow10(k - 1)

Unsigned(cs) == IF cs # <<>> /\ cs[1] \in {"+", "-"} THEN Tail(cs) ELSE cs
Sign(cs) == IF cs # <<>> /\ cs[1] = "-" THEN -1 ELSE 1

ParseFailed == [ok |-> FALSE, v |-> None]

\* int(text): [ok, v]; ok is FALSE where Python raises ValueError
ParseInt(cs) ==
  LET body == Unsigned(Strip(cs))
  IN  IF IsDigitGroup(body)
      THEN [ok |-> TRUE, v |-> IntV(Sign(Strip(cs)) * GroupValue(body, 0))]
      ELSE ParseFailed

\* float(text) for a text without exponent
ParseFloat(cs) ==
  LET body == Unsigned(Strip(cs))
      dots == {i \in DOMAIN body : body[i] = "."}
      dot == IF dots = {} THEN Len(body) + 1 ELSE CHOOSE i \in dots : \A j \in dots : i <= j
      ip == SubSeq(body, 1, dot - 1)
      fp == SubSeq(body, dot + 1, Len(body))
      k == Cardinality({i \in DOMAIN fp : IsDigit(fp[i])})
  IN  IF /\ Cardinality(dots) <= 1
         /\ ip # <<>> \/ fp # <<>>
         /\ ip = <<>> \/ IsDigitGroup(ip)
         /\ fp = <<>> \/ IsDigitGroup(fp)
      THEN [ok |-> TRUE,
            v |-> FloatV(Sign(Strip(cs)) * (GroupValue(ip, 0) * Pow10(k) + GroupValue(fp, 0)),
                         Pow10(k))]
      ELSE ParseFailed

NA == Text(<<"N", "A">>)

text_fields == <<"SubAdminID", "SubAdminName", "Result">>
integer_fields == <<"n", "N">>
float_fields == <<"bayes", "freq", "freq.se">>
CoercionOrder == text_fields \o integer_fields \o float_fields
ExpectedFields == Range(CoercionOrder)

\* csv.DictReader: a blank line is skipped, a short line's missing cells are None
\* (cells beyond the header are not modelled)
DictReader(file) ==
  LET lines == SelectSeq(file.rows, LAMBDA r : r # <<>>)
  IN  [j \in DOMAIN lines |->
         [c \in Range(file.header) |->
            LET i == CHOOSE i \in DOMAIN file.header : file.header[i] = c
            IN  IF i <= Len(lines[j]) THEN Text(lines[j][i]) ELSE None]]

RejectUnparsed(v, field) ==
  IF v = NA THEN None
  ELSE IF field \in Range(text_fields) THEN v
  ELSE IF field \in Range(integer_fields)
       THEN (IF ParseInt(v.s).ok THEN ParseInt(v.s).v ELSE v)
  ELSE (IF ParseFloat(v.s).ok THEN ParseFloat(v.s).v ELSE v)

\* the new value of each_row[field]
CoerceField(v, field) ==
  IF v = NA THEN None
  ELSE IF field \in Range(text_fields) THEN v
  ELSE IF field \in Range(integer_fields) THEN ParseInt(v.s).v
  ELSE ParseFloat(v.s).v

\* the exception that each_row[field] and its conversion raise other than
\* ValueError: "" if none
FieldError(row, field) ==
  IF ~Has(row, field) THEN "KeyError"
  ELSE IF field \notin Range(text_fields) /\ row[field] = None THEN "TypeError"
  ELSE ""

\* the position in CoercionOrder of the first field of row that raises, 0 if none
FirstError(row) ==
  LET bad == {i \in DOMAIN CoercionOrder : FieldError(row, CoercionOrder[i]) # ""}
  IN  IF bad = {} THEN 0 ELSE CHOOSE i \in bad : \A j \in bad : i <= j

\* row after the fields at positions 1..k of CoercionOrder have been coerced
CoerceRow(row, k) ==
  [f \in DOMAIN row |->
     IF \E i \in 1..k : CoercionOrder[i] = f THEN CoerceField(row[f], f) ELSE row[f]]

\* the position of the first row that raises, 0 if none
FirstBadRow(rows) ==
  LET bad == {j \in DOMAIN rows : FirstError(rows[j]) # 0}
  IN  IF bad = {} THEN 0 ELSE CHOOSE j \in bad : \A i \in bad : j <= i

\* handle_uncaught_exception of the output script
UncaughtOutputRecord(type) ==
  LogRecord("ERROR", "{type} error has occurred with value: {value}. Traceback: {traceback}", type)

OutputUncaught(type, arg) ==
  /\ execution_log' = Append(execution_log, UncaughtOutputRecord(type))
  /\ pc' = "done"
  /\ exit_code' = 1
  /\ error' = Raised(type, arg, FALSE)

\* LOGGING CONFIG and the first line of info.html; both files are opened for append
\* and need the attachments directory
OutSetup ==
  /\ pc \in {"idle", "done"}
  /\ runs_left > 0
  /\ runs_left' = runs_left - 1
  /\ script' = "output"
  /\ params' = NoParams
  /\ subadmin_areas_data' = <<>>
  /\ demography' = <<>>
  /\ demography_data' = <<>>
  /\ sample_data' = <<>>
  /\ model_output_dictlist' = <<>>
  /\ IF attachments_dir \notin exists
     THEN \* logging.basicConfig raises before the exception hook is installed
          /\ pc' = "done"
          /\ exit_code' = 1
          /\ error' = Raised("FileNotFoundError", logging_path, FALSE)
          /\ written' = {}
          /\ UNCHANGED <<exists, info_html>>
     ELSE /\ pc' = "out_load"
          /\ exit_code' = -1
          /\ error' = NoError
          /\ exists' = exists \cup {logging_path, model_metadata_log_file}
          /\ info_html' = Append(info_html, HtmlLine("Model Exports", "h3", EmptyDict))
          /\ written' = {logging_path, model_metadata_log_file}
  /\ UNCHANGED <<inputs, csv_out, output_json, attachments_json, execution_log>>

\* Get Model Output File
OutLoad ==
  /\ script = "output" /\ pc = "out_load"
  /\ IF model_output_file \notin exists
     THEN /\ OutputUncaught("FileNotFoundError", model_output_file)
          /\ UNCHANGED model_output_dictlist
     ELSE /\ model_output_dictlist' = DictReader(inputs.model_output)
          /\ pc' = "out_coerce"
          /\ UNCHANGED <<execution_log, exit_code, error>>
  /\ UNCHANGED <<exists, inputs, csv_out, output_json, attachments_json, info_html, script,
                 runs_left, written, params, subadmin_areas_data, demography, demography_data,
                 sample_data>>

\* the try block that converts the fields, and its except Exception branch
OutCoerce ==
  /\ script = "output" /\ pc = "out_coerce"
  /\ LET j == FirstBadRow(model_output_dictlist)
     IN  IF j = 0
         THEN /\ model_output_dictlist' =
                   [i \in DOMAIN model_output_dictlist |->
                      CoerceRow(model_output_dictlist[i], Len(CoercionOrder))]
              /\ pc' = "out_write"
              /\ UNCHANGED <<execution_log, info_html, exit_code, error>>
         ELSE LET k == FirstError(model_output_dictlist[j])
              IN  /\ model_output_dictlist' =
                       [i \in DOMAIN model_output_dictlist |->
                          IF i < j THEN CoerceRow(model_output_dictlist[i], Len(CoercionOrder))
                          ELSE IF i = j THEN CoerceRow(model_output_dictlist[i], k - 1)
                          ELSE model_output_dictlist[i]]
                  /\ execution_log' = Append(execution_log,
                       LogRecord("ERROR", "Failed to convert model output field value to floating point.",
                                 FieldError(model_output_dictlist[j], CoercionOrder[k])))
                  /\ info_html' = Append(info_html,
                       HtmlLine("ERROR: Failed to create output file.", "p", EmptyDict))
                  /\ pc' = "done"
                  /\ exit_code' = 1
                  /\ error' = Raised(FieldError(model_output_dictlist[j], CoercionOrder[k]),
                                     CoercionOrder[k], TRUE)
  /\ UNCHANGED <<exists, inputs, csv_out, output_json, attachments_json, script, runs_left,
                 written, params, subadmin_areas_data, demography, demography_data,
                 sample_data>>

\* Write to JSON Output file
OutWriteJson ==
  /\ script = "output" /\ pc = "out_write"
  /\ output_json' = model_output_dictlist
  /\ exists' = exists \cup {model_output_json_path}
  /\ written' = written \cup {model_output_json_path}
  /\ pc' = "out_register"
  /\ UNCHANGED <<inputs, csv_out, attachments_json, execution_log, info_html, script,
                 exit_code, error, runs_left, memVars>>

\* Add output.json to the attachments list
OutRegister ==
  /\ script = "output" /\ pc = "out_register"
  /\ IF attachments_json_path \notin exists
     THEN /\ OutputUncaught("FileNotFoundError", attachments_json_path)
          /\ UNCHANGED <<attachments_json, written>>
     ELSE /\ attachments_json' = add_item_to_json_file_list(attachments_json, OutputAttachment)
          /\ written' = written \cup {attachments_json_path}
          /\ pc' = "out_log_success"
          /\ UNCHANGED <<execution_log, exit_code, error>>
  /\ UNCHANGED <<exists, inputs, csv_out, output_json, info_html, script, runs_left, memVars>>

\* the last line of the script
OutLogSuccess ==
  /\ script = "output" /\ pc = "out_log_success"
  /\ info_html' = Append(info_html,
                         HtmlLine("Model exports successfully created.", "p", EmptyDict))
  /\ pc' = "done"
  /\ exit_code' = 0
  /\ UNCHANGED <<exists, inputs, csv_out, output_json, attachments_json, execution_log,
                 script, error, runs_left, written, memVars>>

OutputNext ==
  \/ OutSetup
  \/ OutLoad
  \/ OutCoerce
  \/ OutWriteJson
  \/ OutRegister
  \/ OutLogSuccess


(***************************************************************************)
(* The input files the model draws from.                                   *)
(***************************************************************************)
InputFiles == {parameters_file, subadmin_file, demography_file, sample_file,
               model_output_file}

Dict2(k1, v1, k2, v2) == [k \in {k1, k2} |-> IF k = k1 THEN v1 ELSE v2]

\* params.json
Provider(name) ==
  [k \in {"_administrative_area"} |-> [j \in {"administrative_area"} |-> StrV(name)]]
ParamFields == Dict2("alpha", FloatV(5, 100), "sensitivity", FloatV(9, 10))
ParamsFull == [fields |-> ParamFields, has_provider |-> TRUE, provider |-> Provider("New York")]
ParamsNoProvider == [fields |-> ParamFields, has_provider |-> FALSE, provider |-> EmptyDict]
ParamsNoAdminArea == [fields |-> ParamFields, has_provider |-> TRUE, provider |-> EmptyDict]
ParamsNoAlpha ==
  [fields |-> Del(ParamFields, "alpha"), has_provider |-> TRUE, provider |-> Provider("New York")]
ParamsNoScalars ==
  [fields |-> EmptyDict, has_provider |-> TRUE, provider |-> Provider("New York")]

\* sub_administrative_area.ndJson
RawArea(id, aland) ==
  [k \in {"_id", "name", "full_name", "aland", "geoid"} |->
     CASE k = "_id" -> StrV(id)
       [] k = "name" -> StrV("County")
       [] k = "full_name" -> StrV("County, State")
       [] k = "aland" -> IntV(aland)
       [] OTHER -> StrV("36001")]
RawAreas == {RawArea("a", 500000), RawArea("a", 2000000), RawArea("b", 500000)}

\* demography.ndJson
DemoFields(metric) ==
  [k \in {"species", "metric", "season_year"} |->
     CASE k = "species" -> StrV("white-tailed deer")
       [] k = "metric" -> StrV(metric)
       [] OTHER -> StrV("2023-24")]
DemoData ==
  { <<<<"a", FloatV(5, 1)>>>>,
    <<<<"b", IntV(3)>>>>,
    <<<<"a", IntV(3)>>, <<"b", FloatV(5, 1)>>>>,
    <<<<"b", FloatV(5, 1)>>, <<"a", IntV(3)>>>> }
DemoRecords ==
  {[fields |-> DemoFields(m), data |-> d] : m \in {"deer density", "total population"},
                                            d \in DemoData}
DemoNoMetric ==
  [fields |-> Del(DemoFields("x"), "metric"), data |-> <<<<"a", IntV(3)>>>>]

\* sample.ndJson
SampleFields ==
  [k \in {"_id", "species", "sample_source", "season_year", "age_group", "sex"} |->
     CASE k = "_id" -> StrV("s1")
       [] k = "species" -> StrV("white-tailed deer")
       [] k = "sample_source" -> StrV("hunter harvest")
       [] k = "season_year" -> StrV("2023-24")
       [] k = "age_group" -> StrV("adult")
       [] OTHER -> StrV("female")]
Tests ==
  { Dict2("selected_definitive", BoolV(FALSE), "result", StrV("negative")),
    Dict2("selected_definitive", BoolV(TRUE), "result", StrV("positive")),
    [k \in {"selected_definitive"} |-> BoolV(TRUE)] }
SampleAreas ==
  { [has_area |-> FALSE, area |-> EmptyDict],
    [has_area |-> TRUE, area |-> EmptyDict],
    [has_area |-> TRUE, area |-> Dict2("_id", StrV("a"), "name", StrV("County"))] }
SampleRecords ==
  {[fields |-> f, tests |-> t, has_area |-> a.has_area, area |-> a.area] :
     f \in {SampleFields, Put(SampleFields, "result", StrV("prior")),
            Del(SampleFields, "_id")},
     t \in SeqUpTo(Tests, MaxTests),
     a \in SampleAreas}
SimpleSample ==
  [fields |-> SampleFields,
   tests |-> <<Dict2("selected_definitive", BoolV(TRUE), "result", StrV("positive"))>>,
   has_area |-> TRUE, area |-> Dict2("_id", StrV("a"), "name", StrV("County"))]
SampleNoId == [SimpleSample EXCEPT !.fields = Del(SampleFields, "_id")]
SampleBadTest == [SimpleSample EXCEPT !.tests = <<[k \in {"result"} |-> StrV("positive")]>>]

\* SimpleUndetectedPrevalenceEstimatorOutput.csv
Header == <<"SubAdminID", "SubAdminName", "n", "N", "bayes", "freq", "freq.se", "Result">>
Alphabet == {"1", "2", "-", ".", "N", "A"}
Texts == SeqUpTo(Alphabet, MaxLen)
BaseCells == <<<<"1">>, <<"A">>, <<"1">>, <<"1", "2">>, <<".", "1">>, <<"1", ".", "2">>,
               <<"N", "A">>, <<"N">>>>
ExampleCells == <<<<"a">>, <<"A">>, <<"N", "A">>, <<"1", "2">>, <<"0", ".", "5">>,
                  <<"a", "b", "c">>, <<" ", "1", "_", "2", ".", "5", " ">>, <<"N", "A">>>>
SpacedCells == <<<<"N", "A", " ">>, <<>>, <<" ", "-", "1", "_", "2">>, <<"1", "_">>,
                 <<"-", ".", "5">>, <<"1", ".", "2", ".">>, <<"+", "1">>, <<>>>>
\* a line that ends before the float columns, and one that lacks only Result
ShortCells == SubSeq(BaseCells, 1, 4)
NoResultCells == SubSeq(BaseCells, 1, 7)
VariedLines == {[BaseCells EXCEPT ![i] = t] : i \in DOMAIN BaseCells, t \in Texts}
FewLines == {BaseCells, ExampleCells, SpacedCells, NoResultCells, <<>>}
ModelFile(header, rows) == [header |-> header, rows |-> rows]
GoodModelFile == ModelFile(Header, <<ExampleCells>>)
ShortModelFile == ModelFile(Header, <<BaseCells, ShortCells, ExampleCells>>)
NoColumnModelFile == ModelFile(SubSeq(Header, 1, 6) \o <<"Result">>, <<BaseCells>>)

NoModelFile == ModelFile(<<>>, <<>>)

\* a /data directory: the input files present and their content (absent files
\* have the empty content)
Scenario(present, p, sa, demo, sample, model) ==
  [present |-> present, params |-> p, subadmin |-> sa, demography |-> demo,
   sample |-> sample, model_output |-> model]

Choices(file, present, options, absent) == IF file \in present THEN options ELSE {absent}

\* every combination of present files, each present file with one of a few contents;
\* the model result file lies in the attachments directory
SmallScenarios ==
  UNION { { Scenario(IF model_output_file \in present THEN present \cup {attachments_dir}
                       ELSE present \cup dir, p, sa, demo, sample, model) :
              p \in Choices(parameters_file, present,
                            {ParamsFull, ParamsNoProvider, ParamsNoAdminArea, ParamsNoAlpha},
                            NoParams),
              sa \in Choices(subadmin_file, present,
                             {<<RawArea("a", 2000000)>>,
                              <<Del(RawArea("a", 2000000), "aland")>>}, <<>>),
              demo \in Choices(demography_file, present,
                               {<<[fields |-> DemoFields("deer density"),
                                   data |-> <<<<"a", FloatV(5, 1)>>, <<"b", FloatV(5, 2)>>>>]>>,
                                <<DemoNoMetric>>}, <<>>),
              sample \in Choices(sample_file, present,
                                 {<<SimpleSample, SampleNoId>>, <<SampleBadTest>>}, <<>>),
              model \in Choices(model_output_file, present,
                                {GoodModelFile, ShortModelFile, NoColumnModelFile},
                                NoModelFile) } :
          present \in SUBSET InputFiles,
          dir \in {{}, {attachments_dir}} }

AllInputs == InputFiles \cup {attachments_dir}

DemographyScenarios ==
  { Scenario(AllInputs, ParamsFull, sa, demo, <<SimpleSample>>, GoodModelFile) :
      sa \in SeqUpTo(RawAreas, MaxAreas), demo \in SeqUpTo(DemoRecords, MaxDemo) }

SampleScenarios ==
  { Scenario(AllInputs, ParamsFull, <<RawArea("a", 2000000)>>, <<>>, sample, GoodModelFile) :
      sample \in SeqUpTo(SampleRecords, MaxSamples) }

CoerceScenarios ==
  { Scenario(AllInputs, ParamsNoScalars, <<>>, <<>>, <<>>, ModelFile(Header, rows)) :
      rows \in {<<r>> : r \in VariedLines} \cup SeqUpTo(FewLines, MaxRows) }

InitWith(scenarios, budget) ==
  /\ \E sc \in scenarios :
       /\ exists = sc.present
       /\ inputs = [params |-> sc.params, subadmin |-> sc.subadmin,
                    demography |-> sc.demography, sample |-> sc.sample,
                    model_output |-> sc.model_output]
  /\ csv_out = [f \in TabularFiles |-> <<>>]
  /\ output_json = <<>>
  /\ attachments_json = <<>>
  /\ execution_log = <<>>
  /\ info_html = <<>>
  /\ script = "none"
  /\ pc = "idle"
  /\ exit_code = -1
  /\ error = NoError
  /\ runs_left = budget
  /\ written = {}
  /\ params = NoParams
  /\ subadmin_areas_data = <<>>
  /\ demography = <<>>
  /\ demography_data = <<>>
  /\ sample_data = <<>>
  /\ model_output_dictlist = <<>>

Init == InitWith(SmallScenarios, MaxRuns)
Next == InputNext \/ OutputNext
Spec == Init /\ [][Next]_vars

\* one run of the input script over rich areas and demography
InitDemography == InitWith(DemographyScenarios, 1)
SpecDemography == InitDemography /\ [][InputNext]_vars

\* one run of the input script over rich samples
InitSample == InitWith(SampleScenarios, 1)
SpecSample == InitSample /\ [][InputNext]_vars

\* two runs, of either script, over rich model result files
InitCoerce == InitWith(CoerceScenarios, 2)
SpecCoerce == InitCoerce /\ [][Next]_vars


(***************************************************************************)
(* Properties.                                                             *)
(***************************************************************************)
Last(seq) == seq[Len(seq)]
Ended(which) == script = which /\ pc = "done"
Missing(file) == error.type = "FileNotFoundError" /\ error.arg = file
RequiredInputs == {parameters_file, subadmin_file, demography_file, sample_file}
CoercionFailed == script = "output" /\ error.caught

\* the lines of info.html the current run has written
RunHtml ==
  IF script = "input" \/ info_html = <<>> THEN info_html
  ELSE LET starts == {i \in DOMAIN info_html : info_html[i].line = "Model Exports"}
       IN  IF starts = {} THEN <<>>
           ELSE SubSeq(info_html, CHOOSE i \in starts : \A j \in starts : j <= i,
                       Len(info_html))
HtmlDiagnosed ==
  \E i \in DOMAIN RunHtml :
     RunHtml[i].line \in {"ERROR", "ERROR: Failed to create output file."}
LogDiagnosed == execution_log # <<>> /\ Last(execution_log).level = "ERROR"

\* C1: a run that ends on a missing required input file (of either script) or on
\* a failed coercion has exit code 1 and has written a diagnostic entry to the
\* execution log and to info.html.
C1_FatalLoggedInBothLogs ==
  (pc = "done" /\ (\/ script = "input" /\ \E f \in RequiredInputs : Missing(f)
                   \/ script = "output" /\ Missing(model_output_file)
                   \/ CoercionFailed))
    => (exit_code = 1 /\ LogDiagnosed /\ HtmlDiagnosed)

\* C2: a run that ends on a missing input file has written neither the failing
\* stage's tabular file nor a later stage's; a run that ends on a failed coercion
\* has written neither output.json nor the manifest.
C2_NoOutputForFailingStage ==
  pc = "done" =>
    /\ (script = "input" /\ Missing(parameters_file)) => written \cap TabularFiles = {}
    /\ (script = "input" /\ Missing(subadmin_file)) => written \cap TabularFiles = {}
    /\ (script = "input" /\ Missing(demography_file)) =>
         written \cap {demography_csv, sample_csv, params_csv} = {}
    /\ (script = "input" /\ Missing(sample_file)) =>
         written \cap {sample_csv, params_csv} = {}
    /\ CoercionFailed =>
         /\ model_output_json_path \notin written
         /\ attachments_json_path \notin written

C2_Witness ==
  /\ Ended("input") /\ Missing(demography_file)
  /\ subadmin_csv \in written
  /\ exit_code = 1

\* C8 (as claimed): whenever params.json is present, the parameters stage does
\* not end the run: it hands the parameters, without provenance, to the next stage.
C8_ParamsPresentNeverFails ==
  [][(script = "input" /\ pc = "in_params" /\ parameters_file \in exists)
       => (pc' = "in_subadmin" /\ ~params'.has_provider)]_vars

\* the source value of line j, column i of a tabular file written from rows
SourceValue(fieldnames, rows, j, i) ==
  IF Has(rows[j], fieldnames[i]) THEN rows[j][fieldnames[i]] ELSE Text(<<>>)

QuotedAsWritten(file, fieldnames, rows, rule(_)) ==
  file \in written =>
    /\ Len(csv_out[file]) = Len(rows) + 1
    /\ \A i \in DOMAIN fieldnames : csv_out[file][1][i].quoted
    /\ \A j \in DOMAIN rows : \A i \in DOMAIN fieldnames :
         csv_out[file][j + 1][i].quoted = rule(SourceValue(fieldnames, rows, j, i))

AllTabular(rule(_)) ==
  script = "input" =>
    /\ QuotedAsWritten(subadmin_csv, subadmin_fieldnames, subadmin_areas_data, rule)
    /\ QuotedAsWritten(demography_csv, demography_fieldnames, demography_data, rule)
    /\ QuotedAsWritten(sample_csv, sample_fieldnames,
                       [i \in DOMAIN sample_data |-> sample_data[i].fields], rule)
    /\ QuotedAsWritten(params_csv, params_fieldnames, <<params.fields>>, rule)

SuccessLines ==
  Cardinality({i \in DOMAIN info_html :
                 info_html[i].line = "Model exports successfully created."})

ManifestShape ==
  attachments_json_path \in exists =>
    attachments_json =
      <<ExecutionLogAttachment, InfoAttachment>> \o
        [i \in 1..(SuccessLines + IF script = "output" /\ pc = "out_log_success"
                                  THEN 1 ELSE 0) |-> OutputAttachment]

ManifestStep ==
  /\ (pc \in {"idle", "done"} /\ script' = "input" /\ pc' = "in_params")
       => attachments_json' = <<ExecutionLogAttachment, InfoAttachment>>
  /\ (script = "input" /\ pc \notin {"idle", "done"})
       => attachments_json' = attachments_json
  /\ (script' = "output" /\ attachments_json' # attachments_json)
       => /\ pc = "out_register" /\ pc' = "out_log_success"
          /\ model_output_json_path \in written
          /\ attachments_json' = Append(attachments_json, OutputAttachment)
  /\ (script = "output" /\ pc = "out_log_success") => (pc' = "done" /\ exit_code' = 0)
  /\ (script = "output" /\ pc = "out_write") => pc' = "out_register"
  /\ (script = "output" /\ pc = "out_register" /\ attachments_json_path \in exists)
       => pc' = "out_log_success"

\* C10: each start of the input script resets the manifest to [execution_log.log,
\* info.html] and the rest of that run leaves it alone; the output script changes
\* it only by appending one output.json entry, after output.json is written, in a
\* run that then succeeds; so the manifest is the two initial entries followed by
\* one output.json entry per successful output run since the last input run.
C10_Manifest == []ManifestShape /\ [][ManifestStep]_vars

C10_Witness ==
  /\ Ended("output") /\ exit_code = 0
  /\ attachments_json = <<ExecutionLogAttachment, InfoAttachment, OutputAttachment,
                          OutputAttachment>>


\* the rows the output script has read, and whether each cell of each is a text
RowsRead == DictReader(inputs.model_output)
IsComplete(row) == \A f \in ExpectedFields : Has(row, f) /\ row[f].t = "str"
Coerced == script = "output" /\ pc \in {"out_write", "out_register", "out_log_success"}

ExpectedCoercion(v, f) ==
  IF v.s = <<"N", "A">> THEN None
  ELSE IF f \in {"SubAdminID", "SubAdminName", "Result"} THEN v
  ELSE IF f \in {"n", "N"} THEN (IF ParseInt(v.s).ok THEN ParseInt(v.s).v ELSE None)
  ELSE (IF ParseFloat(v.s).ok THEN ParseFloat(v.s).v ELSE None)

DefinitiveTests(rec) ==
  {i \in DOMAIN rec.tests : rec.tests[i]["selected_definitive"] = BoolV(TRUE)}

\* C4: after the sample stage, per record: no definitive test gives result None;
\* exactly one gives that test's result, None if it has none; more than one leaves
\* result as it was (kept if present, absent if absent); the area id is the nested
\* reference's _id, None without a reference or without an _id; _id is renamed id;
\* and the stage does not end the run.
C4_SampleResolver ==
  (script = "input" /\ pc \in {"in_write_params", "done"}) =>
    /\ error = NoError
    /\ Len(sample_data) = Len(inputs.sample)
    /\ \A j \in DOMAIN inputs.sample :
         LET rec == inputs.sample[j]
             out == sample_data[j].fields
             sel == DefinitiveTests(rec)
         IN  /\ sel = {} => (Has(out, "result") /\ out["result"] = None)
             /\ \A i \in sel : sel = {i} =>
                  /\ Has(out, "result")
                  /\ out["result"] = IF Has(rec.tests[i], "result")
                                     THEN rec.tests[i]["result"] ELSE None
             /\ Cardinality(sel) > 1 =>
                  /\ Has(out, "result") = Has(rec.fields, "result")
                  /\ Has(out, "result") => out["result"] = rec.fields["result"]
             /\ out["sub_administrative_area_id"] =
                  IF rec.has_area /\ Has(rec.area, "_id") THEN rec.area["_id"] ELSE None
             /\ ~Has(out, "_id")
             /\ Has(rec.fields, "_id") => (Has(out, "id") /\ out["id"] = rec.fields["_id"])

\* a record with two definitive tests and a prior result, which it keeps
C4_Witness ==
  /\ Ended("input") /\ exit_code = 0
  /\ \E j \in DOMAIN inputs.sample :
       /\ Cardinality(DefinitiveTests(inputs.sample[j])) > 1
       /\ Has(inputs.sample[j].fields, "result")
       /\ sample_data[j].fields["result"] = StrV("prior")
       /\ sample_data[j].fields["sub_administrative_area_id"] = None

DemographyDone == script = "input" /\ pc \in {"in_samples", "in_write_params", "done"}
WasDensity(j) == inputs.demography[j].fields["metric"] = StrV("deer density")
Matches(sa_id) == {i \in DOMAIN subadmin_areas_data : subadmin_areas_data[i]["_id"] = StrV(sa_id)}

\* r is num / den rounded to the nearest integer, a tie to the even one
IsNearestEven(r, num, den) ==
  /\ 2 * Abs(num - r * den) <= den
  /\ 2 * Abs(num - r * den) = den => r % 2 = 0

\* C5: after the demography stage, a record whose metric was "deer density" has
\* the converted metric and, for each area-id its data shares with an area, the
\* int round(value * aland / 1_000_000) of the first such area, ties to even; a
\* record with another metric is unchanged.
C5_DensityConversion ==
  DemographyDone =>
    /\ Len(demography) = Len(inputs.demography)
    /\ \A j \in DOMAIN inputs.demography :
         LET old == inputs.demography[j]
             new == demography[j]
         IN  IF Has(old.fields, "metric") /\ WasDensity(j)
             THEN /\ new.fields = [old.fields EXCEPT !["metric"] =
                                     StrV("total population (converted from density)")]
                  /\ Len(new.data) = Len(old.data)
                  /\ \A i \in DOMAIN old.data :
                       /\ new.data[i][1] = old.data[i][1]
                       /\ \A m \in Matches(old.data[i][1]) :
                            (\A k \in Matches(old.data[i][1]) : m <= k) =>
                              /\ new.data[i][2].t = "int"
                              /\ IsNearestEven(new.data[i][2].n,
                                    old.data[i][2].n * subadmin_areas_data[m]["aland"].n,
                                    old.data[i][2].d * 1000000)
             ELSE new = old

\* density 5.0 over the first of two areas "a", of 500,000 m2, became 2 (2.5 rounded
\* to even; the second area "a", of 2,000,000 m2, would give 10)
C5_Witness ==
  /\ DemographyDone
  /\ Len(subadmin_areas_data) = 2
  /\ subadmin_areas_data[1]["_id"] = StrV("a") /\ subadmin_areas_data[1]["aland"] = IntV(500000)
  /\ subadmin_areas_data[2]["_id"] = StrV("a") /\ subadmin_areas_data[2]["aland"] = IntV(2000000)
  /\ \E j \in DOMAIN demography :
       /\ WasDensity(j)
       /\ inputs.demography[j].data = <<<<"a", FloatV(5, 1)>>>>
       /\ demography[j].data = <<<<"a", IntV(2)>>>>

\* the items of the records' data, record by record
ItemsOf(demos) == Flatten([j \in DOMAIN demos |-> demos[j].data])
FirstSeen(items, key) == CHOOSE i \in DOMAIN items :
                           items[i][1] = key /\ \A k \in 1..(i - 1) : items[k][1] # key
RECURSIVE TotalOf(_, _)
TotalOf(items, key) ==
  IF items = <<>> THEN FloatV(0, 1)
  ELSE LET rest == TotalOf(Tail(items), key)
       IN  IF Head(items)[1] # key THEN rest
           ELSE FloatV(Head(items)[2].n * rest.d + rest.n * Head(items)[2].d,
                       Head(items)[2].d * rest.d)
SameNumber(a, b) == a.n * b.d = b.n * a.d

\* C6: the demography rows are one per distinct area-id of the records' data, in
\* the order in which the ids are first seen scanning the records in input order,
\* each with the sum of that id's values over all records.
C6_Aggregation ==
  DemographyDone =>
    LET items == ItemsOf(demography)
        keys == {items[i][1] : i \in DOMAIN items}
    IN  /\ Len(demography_data) = Cardinality(keys)
        /\ {demography_data[r]["_id"] : r \in DOMAIN demography_data} = {StrV(k) : k \in keys}
        /\ \A r \in DOMAIN demography_data :
             LET key == demography_data[r]["_id"].s[1]
             IN  /\ SameNumber(demography_data[r]["value"], TotalOf(items, key))
                 /\ \A q \in DOMAIN demography_data :
                      r < q => FirstSeen(items, key)
                                 < FirstSeen(items, demography_data[q]["_id"].s[1])

\* two records that share area "a" and one of which brings "b" first: b, then a
\* with both values summed
C6_Witness ==
  /\ DemographyDone
  /\ Len(demography) = 2
  /\ subadmin_areas_data = <<>>
  /\ demography[1].data = <<<<"b", FloatV(5, 1)>>, <<"a", IntV(3)>>>>
  /\ demography[2].data = <<<<"a", FloatV(5, 1)>>>>
  /\ demography_data[1]["_id"] = StrV("b") /\ demography_data[1]["value"] = FloatV(5, 1)
  /\ demography_data[2]["_id"] = StrV("a") /\ demography_data[2]["value"] = FloatV(8, 1)

\* C9: an area-id of a "deer density" record that matches no area keeps its
\* value, the record's metric is rewritten all the same, the stage does not end
\* the run, and the id's total is the sum of the raw values given for it.
C9_UnmatchedDensity ==
  DemographyDone =>
    \A j \in DOMAIN inputs.demography : \A i \in DOMAIN inputs.demography[j].data :
      LET key == inputs.demography[j].data[i][1]
      IN  (WasDensity(j) /\ Matches(key) = {}) =>
            /\ error = NoError
            /\ demography[j].data[i] = inputs.demography[j].data[i]
            /\ demography[j].fields["metric"] = StrV("total population (converted from density)")
            /\ \E r \in DOMAIN demography_data :
                 /\ demography_data[r]["_id"] = StrV(key)
                 /\ SameNumber(demography_data[r]["value"],
                               TotalOf(ItemsOf(inputs.demography), key))

\* density 5.0 for "b", which is no area, is kept and summed with a count of 3
C9_Witness ==
  /\ Ended("input") /\ exit_code = 0
  /\ \A i \in DOMAIN subadmin_areas_data : subadmin_areas_data[i]["_id"] = StrV("a")
  /\ Len(demography) = 2
  /\ WasDensity(1) /\ inputs.demography[1].data = <<<<"a", IntV(3)>>, <<"b", FloatV(5, 1)>>>>
  /\ demography[1].data[2] = <<"b", FloatV(5, 1)>>
  /\ ~WasDensity(2) /\ demography[2].data = <<<<"b", IntV(3)>>>>
  /\ \E r \in DOMAIN demography_data :
       demography_data[r] = Dict2("_id", StrV("b"), "value", FloatV(8, 1))

====
